---- MODULE Spec2Model ----
(***************************************************************************)
(* Flashcard REST API (src/main.py): five routes over one MongoDB          *)
(* collection "flashcard".  Handlers are plain `def` routes, which FastAPI *)
(* runs on a thread pool, so requests of different clients interleave      *)
(* between their database operations.  Each database operation is atomic.  *)
(***************************************************************************)
EXTENDS Integers, Sequences, FiniteSets, TLC

(***************************************************************************)
(* Bounds of the model.                                                    *)
(***************************************************************************)
\* documents ever inserted (ObjectIds ever generated) when requests run one
\* at a time
MaxCreates == 2
\* documents ever inserted when the requests of the clients interleave
MaxRaceCreates == 1
\* datetime.now() returns one of the instants 1..MaxTime
MaxTime == 1

\* concurrent clients (threads of the pool serving a request)
Clients == {"c1", "c2"}
Times == 1..MaxTime

(***************************************************************************)
(* Python values, dynamically typed: <<type, payload>>.                    *)
(***************************************************************************)
NoneV == <<"NoneType", "">>
Str(s) == <<"str", s>>
IntV(n) == <<"int", n>>
List(s) == <<"list", s>>
Dict(f) == <<"dict", f>>
Datetime(t) == <<"datetime", t>>
OidV(bytes) == <<"ObjectId", bytes>>

isinstance(v, type) == v[1] = type

\* Python truthiness of the values the handlers test (`if deck:`, `if not doc`)
Truthy(v) ==
    CASE isinstance(v, "NoneType") -> FALSE
      [] isinstance(v, "str") -> v[2] # ""
      [] isinstance(v, "int") -> v[2] # 0
      [] isinstance(v, "dict") -> DOMAIN v[2] # {}
      [] OTHER -> TRUE

\* dict helpers on the payload of a Dict
DictSet(f, k, v) == [x \in DOMAIN f \cup {k} |-> IF x = k THEN v ELSE f[x]]
DictPop(f, k) == [x \in DOMAIN f \ {k} |-> f[x]]
DictGet(f, k) == IF k \in DOMAIN f THEN f[k] ELSE NoneV

(***************************************************************************)
(* bson.ObjectId: 12 bytes, written as 24 hexadecimal characters.          *)
(* A string is a sequence of one-character strings where its characters    *)
(* matter (identifiers); other text is an opaque TLA+ string.              *)
(***************************************************************************)
OidBytes == 12

HexDigits == <<"0", "1", "2", "3", "4", "5", "6", "7",
               "8", "9", "a", "b", "c", "d", "e", "f">>
UpperHex == <<"0", "1", "2", "3", "4", "5", "6", "7",
              "8", "9", "A", "B", "C", "D", "E", "F">>

IsHexChar(ch) == \E i \in 1..16 : HexDigits[i] = ch \/ UpperHex[i] = ch
HexVal(ch) == (CHOOSE i \in 1..16 : HexDigits[i] = ch \/ UpperHex[i] = ch) - 1

\* ObjectId(card_id) raises InvalidId unless card_id is 24 hex characters
ObjectIdValid(s) ==
    /\ Len(s) = 2 * OidBytes
    /\ \A i \in 1..Len(s) : IsHexChar(s[i])

\* ObjectId(card_id): the 12 bytes the 24 hex characters denote
ObjectId(s) ==
    OidV([i \in 1..OidBytes |-> 16 * HexVal(s[2 * i - 1]) + HexVal(s[2 * i])])

\* str(oid): 24 lower-case hex characters
OidStr(oid) ==
    [i \in 1..(2 * OidBytes) |->
        LET b == oid[2][(i + 1) \div 2]
        IN HexDigits[(IF i % 2 = 1 THEN b \div 16 ELSE b % 16) + 1]]

\* the n-th ObjectId the driver generates for an inserted document
GenOid(n) == OidV([i \in 1..OidBytes |-> IF i = OidBytes THEN 160 + n ELSE 95])

\* datetime.astimezone(timezone.utc).isoformat()
IsoFormat(dt) == "2024-01-01T00:00:0" \o ToString(dt[2]) \o "+00:00"

(***************************************************************************)
(* serialize_doc (src/main.py:23-37)                                       *)
(***************************************************************************)
\* faulty variant of SerializeSetId: "id" is never set
SerializeNoId(f) == f

\* lines 27-31: doc["id"] = str(_id)
SerializeSetId(f) ==
    LET _id == DictGet(f, "_id")
    IN IF isinstance(_id, "ObjectId")
       THEN DictSet(f, "id", Str(OidStr(_id)))
       ELSE IF ~isinstance(_id, "NoneType") /\ "id" \notin DOMAIN f
            THEN DictSet(f, "id", Str(OidStr(_id)))
            ELSE f

\* lines 34-36: datetimes become ISO strings
SerializeDates(f) ==
    [k \in DOMAIN f |->
        IF isinstance(f[k], "datetime") THEN Str(IsoFormat(f[k])) ELSE f[k]]

\* the value serialize_doc returns
serialize_doc(doc) ==
    IF ~Truthy(doc) THEN doc
    ELSE Dict(SerializeDates(DictPop(SerializeSetId(doc[2]), "_id")))

\* the caller's dict after serialize_doc returned: line 26 rebinds doc to a
\* copy, so lines 29-36 never write to the caller's object
serialize_doc_arg(doc) == doc

(***************************************************************************)
(* FlashcardOut (src/main.py:89-97): response model.  id, question and     *)
(* answer are required strings, the other fields optional; keys that are   *)
(* not fields of the model (such as "_id") are ignored.                    *)
(***************************************************************************)
OutRequired == {"id", "question", "answer"}
OutOptionalStr == {"deck", "difficulty", "created_at", "updated_at"}
OutFields == OutRequired \cup OutOptionalStr \cup {"tags"}

\* FlashcardOut(**d) raises (TypeError for None, ValidationError otherwise)
FlashcardOutValid(d) ==
    /\ isinstance(d, "dict")
    /\ \A k \in OutRequired : k \in DOMAIN d[2] /\ isinstance(d[2][k], "str")
    /\ \A k \in OutOptionalStr \cap DOMAIN d[2] :
            isinstance(d[2][k], "str") \/ isinstance(d[2][k], "NoneType")
    /\ "tags" \in DOMAIN d[2] =>
            isinstance(d[2]["tags"], "list") \/ isinstance(d[2]["tags"], "NoneType")

FlashcardOut(d) == Dict([k \in OutFields |-> DictGet(d[2], k)])

(***************************************************************************)
(* Flashcard (schemas.py): the request model, five fields.                 *)
(***************************************************************************)
FlashcardFields == {"question", "answer", "deck", "tags", "difficulty"}

CardA == [question |-> Str("q1"), answer |-> Str("a1"), deck |-> Str("math"),
          tags |-> List(<<Str("algebra"), Str("basics")>>), difficulty |-> NoneV]
CardB == [question |-> Str("q2"), answer |-> Str("a2"), deck |-> NoneV,
          tags |-> NoneV, difficulty |-> Str("easy")]
\* card.model_dump() of the request bodies the clients send
Cards == {CardA, CardB}

(***************************************************************************)
(* The pymongo collection db["flashcard"]: a set of documents, each a dict *)
(* with a unique "_id".  Every operation below is one atomic database      *)
(* operation.                                                              *)
(***************************************************************************)
\* a stored value matches a query value if equal, or if it is an array
\* containing it
FieldMatches(v, q) ==
    \/ v = q
    \/ isinstance(v, "list") /\ \E i \in 1..Len(v[2]) : v[2][i] = q

Matches(d, filter) ==
    \A k \in DOMAIN filter : k \in DOMAIN d /\ FieldMatches(d[k], filter[k])

\* collection.find(filter)
Find(coll, filter) == {d \in coll : Matches(d, filter)}

\* collection.find_one(filter): a document or None
FindOne(coll, filter) ==
    IF Find(coll, filter) = {} THEN NoneV
    ELSE Dict(CHOOSE d \in Find(coll, filter) : TRUE)

\* faulty variant of SetFields: the document is replaced by data
SetReplace(d, data) ==
    [k \in DOMAIN data \cup {"_id"} |-> IF k = "_id" THEN d[k] ELSE data[k]]

\* the document after {"$set": data}
SetFields(d, data) ==
    [k \in DOMAIN d \cup DOMAIN data |-> IF k \in DOMAIN data THEN data[k] ELSE d[k]]

\* faulty variant of UpdateOne: upsert=True
UpdateOneUpsert(coll, filter, data) ==
    IF Find(coll, filter) = {} THEN coll \cup {SetFields(filter, data)}
    ELSE LET d == CHOOSE x \in Find(coll, filter) : TRUE
         IN (coll \ {d}) \cup {SetFields(d, data)}

\* the collection after update_one(filter, {"$set": data})
UpdateOne(coll, filter, data) ==
    IF Find(coll, filter) = {} THEN coll
    ELSE LET d == CHOOSE x \in Find(coll, filter) : TRUE
         IN (coll \ {d}) \cup {SetFields(d, data)}

\* UpdateResult
UpdateResult(coll, filter, data) ==
    [matched_count |-> IF Find(coll, filter) = {} THEN 0 ELSE 1,
     modified_count |-> IF UpdateOne(coll, filter, data) = coll THEN 0 ELSE 1]

\* faulty variant of DeleteOne: a match empties the collection
DeleteMany(coll, filter) == IF Find(coll, filter) = {} THEN coll ELSE {}

\* the collection after delete_one(filter)
DeleteOne(coll, filter) ==
    IF Find(coll, filter) = {} THEN coll
    ELSE coll \ {CHOOSE x \in Find(coll, filter) : TRUE}

\* DeleteResult
DeleteResult(coll, filter) ==
    [deleted_count |-> IF Find(coll, filter) = {} THEN 0 ELSE 1]

\* insert_one(data): the driver adds a fresh "_id"
InsertOne(coll, data, n) == coll \cup {DictSet(data, "_id", GenOid(n))}

(***************************************************************************)
(* database.py helpers used by the handlers.                               *)
(***************************************************************************)
\* create_document(collection, card, ...): the dict handed to insert_one,
\* the model's fields plus the two timestamps
create_document_data(card, t) ==
    DictSet(DictSet(card, "created_at", Datetime(t)), "updated_at", Datetime(t))

\* get_documents(collection, filter_dict, limit): the result lists a find
\* with an optional limit can return (the natural order is the server's)
get_documents(coll, filter_dict, limit) ==
    LET found == Find(coll, filter_dict)
        n == IF Truthy(limit) /\ limit[2] < Cardinality(found)
             THEN limit[2] ELSE Cardinality(found)
    IN {docs \in SUBSET found : Cardinality(docs) = n}

(***************************************************************************)
(* State.                                                                  *)
(***************************************************************************)
VARIABLES
    db,          \* the imported database handle: "None" or "client"
    flashcard,   \* the documents of db["flashcard"]
    next_oid,    \* ObjectIds the driver has generated so far
    handler,     \* per client: the locals of a handler between its write and its read
                 \*   (dirty is history: another request wrote the document since)
    last,        \* the request that just completed, with its response being sent
    written,     \* history: per ObjectId, the card of the last acknowledged write,
                 \*          or Deleted after an acknowledged delete
    created_ok,  \* history: create_flashcard calls that returned 200
    deleted_ok   \* history: delete_flashcard calls that returned {"success": true}

vars == <<db, flashcard, next_oid, handler, last, written, created_ok, deleted_ok>>

Deleted == <<"deleted", "">>

Idle == [pc |-> "idle", op |-> "", card_id |-> NoneV, oid |-> NoneV, card |-> NoneV,
         t |-> 0, result |-> NoneV, dirty |-> FALSE]

NoArgs == [card_id |-> NoneV, card |-> NoneV, deck |-> NoneV, tag |-> NoneV,
           limit |-> NoneV]

NoRequest == [op |-> "", args |-> NoArgs, status |-> 0, detail |-> "",
              body |-> NoneV, result |-> NoneV, ops |-> <<>>, doc |-> NoneV]

Init ==
    /\ db \in {"None", "client"}
    /\ flashcard = {}
    /\ next_oid = 0
    /\ handler = [c \in Clients |-> Idle]
    /\ last = NoRequest
    /\ written = <<>>
    /\ created_ok = 0
    /\ deleted_ok = 0

\* client c can start a request: its handler is not running, and the response
\* completed last has been sent
Ready(c) == last = NoRequest /\ handler[c].pc = "idle"

\* the response of a completed request
Response(op, args, status, detail, body, result, ops, doc) ==
    [op |-> op, args |-> args, status |-> status, detail |-> detail,
     body |-> body, result |-> result, ops |-> ops, doc |-> doc]

\* faulty variant of DbNotAvailable: status 503
DbNotAvailableAs503(op, args) ==
    Response(op, args, 503, "Database not available", NoneV, NoneV, <<>>, NoneV)

\* raise HTTPException(status_code=500, detail="Database not available")
DbNotAvailable(op, args) ==
    Response(op, args, 500, "Database not available", NoneV, NoneV, <<>>, NoneV)

\* faulty variant of InvalidId: an unparsable id is reported as a missing card
InvalidIdAsNotFound(op, args) ==
    Response(op, args, 404, "Flashcard not found", NoneV, NoneV, <<>>, NoneV)

\* raise HTTPException(status_code=400, detail="Invalid ID")
InvalidId(op, args) ==
    Response(op, args, 400, "Invalid ID", NoneV, NoneV, <<>>, NoneV)

\* raise HTTPException(status_code=404, detail="Flashcard not found")
NotFound(op, args, result, ops) ==
    Response(op, args, 404, "Flashcard not found", NoneV, result, ops, NoneV)

\* return FlashcardOut(**serialize_doc(doc)): 200 with the model, or the
\* framework's 500 when the constructor raises
ReturnFlashcardOut(op, args, doc, result, ops) ==
    IF FlashcardOutValid(serialize_doc(doc))
    THEN Response(op, args, 200, "", FlashcardOut(serialize_doc(doc)), result, ops,
                  serialize_doc_arg(doc))
    ELSE Response(op, args, 500, "Internal Server Error", NoneV, result, ops,
                  serialize_doc_arg(doc))

\* another client's write to the document a handler is about to read back
MarkDirty(c, oid) ==
    [x \in Clients |->
        IF x # c /\ handler[x].pc # "idle" /\ handler[x].oid = oid
        THEN [handler[x] EXCEPT !.dirty = TRUE] ELSE handler[x]]

(***************************************************************************)
(* GET /api/flashcards (src/main.py:100-111)                               *)
(***************************************************************************)
\* faulty variant of ListFilter: the tag is left out of the filter
ListFilterNoTag(deck, tag) == IF Truthy(deck) THEN [deck |-> deck] ELSE <<>>

\* lines 104-108: filter_dict
ListFilter(deck, tag) ==
    LET f1 == IF Truthy(deck) THEN [deck |-> deck] ELSE <<>>
    IN IF Truthy(tag) THEN DictSet(f1, "tags", tag) ELSE f1

list_flashcards(c, deck, tag, limit) ==
    LET args == [NoArgs EXCEPT !.deck = deck, !.tag = tag, !.limit = limit]
    IN /\ Ready(c)
       /\ IF db = "None"
          THEN last' = DbNotAvailable("list", args)
          ELSE \E docs \in get_documents(flashcard, ListFilter(deck, tag), limit) :
                 last' = IF \A d \in docs : FlashcardOutValid(serialize_doc(Dict(d)))
                         THEN Response("list", args, 200, "",
                                <<"list", {FlashcardOut(serialize_doc(Dict(d))) : d \in docs}>>,
                                NoneV, <<"find">>,
                                <<"list", {serialize_doc_arg(Dict(d)) : d \in docs}>>)
                         ELSE Response("list", args, 500, "Internal Server Error",
                                NoneV, NoneV, <<"find">>, NoneV)
       /\ UNCHANGED <<db, flashcard, next_oid, handler, written, created_ok, deleted_ok>>

(***************************************************************************)
(* POST /api/flashcards (src/main.py:114-120)                              *)
(***************************************************************************)
\* lines 116-118: create_document inserts; inserted_id is kept for the read
create_flashcard(c, card, t) ==
    LET args == [NoArgs EXCEPT !.card = Dict(card)]
    IN /\ Ready(c)
       /\ IF db = "None"
          THEN /\ last' = DbNotAvailable("create", args)
               /\ UNCHANGED <<flashcard, next_oid, handler>>
          ELSE /\ next_oid < MaxCreates
               /\ flashcard' = InsertOne(flashcard, create_document_data(card, t),
                                         next_oid + 1)
               /\ next_oid' = next_oid + 1
               /\ handler' = [handler EXCEPT ![c] =
                      [pc |-> "find_one", op |-> "create", card_id |-> NoneV,
                       oid |-> GenOid(next_oid + 1), card |-> Dict(card), t |-> t,
                       result |-> NoneV, dirty |-> FALSE]]
               /\ UNCHANGED last
       /\ UNCHANGED <<db, written, created_ok, deleted_ok>>

\* lines 119-120: find_one by the inserted id, then the response
create_flashcard_find(c) ==
    LET h == handler[c]
        args == [NoArgs EXCEPT !.card = h.card]
        doc == FindOne(flashcard, [_id |-> ObjectId(OidStr(h.oid))])
        resp == ReturnFlashcardOut("create", args, doc, NoneV,
                                   <<"insert_one", "find_one">>)
    IN /\ last = NoRequest
       /\ h.pc = "find_one"
       /\ h.op = "create"
       /\ last' = resp
       /\ handler' = [handler EXCEPT ![c] = Idle]
       /\ IF resp.status = 200
          THEN /\ created_ok' = created_ok + 1
               /\ written' = DictSet(written, h.oid, args.card)
          ELSE UNCHANGED <<created_ok, written>>
       /\ UNCHANGED <<db, flashcard, next_oid, deleted_ok>>

(***************************************************************************)
(* GET /api/flashcards/{card_id} (src/main.py:123-134)                     *)
(***************************************************************************)
get_flashcard(c, card_id) ==
    LET args == [NoArgs EXCEPT !.card_id = Str(card_id)]
    IN /\ Ready(c)
       /\ last' =
            IF db = "None" THEN DbNotAvailable("get", args)
            ELSE IF ~ObjectIdValid(card_id) THEN InvalidId("get", args)
            ELSE LET doc == FindOne(flashcard, [_id |-> ObjectId(card_id)])
                 IN IF ~Truthy(doc) THEN NotFound("get", args, NoneV, <<"find_one">>)
                    ELSE ReturnFlashcardOut("get", args, doc, NoneV, <<"find_one">>)
       /\ UNCHANGED <<db, flashcard, next_oid, handler, written, created_ok, deleted_ok>>

(***************************************************************************)
(* PUT /api/flashcards/{card_id} (src/main.py:137-152)                     *)
(***************************************************************************)
\* faulty variant of UpdateMissed: modified_count is tested
UpdateMissedOnModified(result) == result.modified_count = 0

\* line 149: the 404 test on the UpdateResult
UpdateMissed(result) == result.matched_count = 0

\* faulty variant of UpdateData: model_dump(exclude_none=True)
UpdateDataNoNone(card, t) ==
    DictSet([k \in {x \in DOMAIN card : ~isinstance(card[x], "NoneType")} |-> card[k]],
            "updated_at", Datetime(t))

\* lines 146-147: update_data, the fields update_one sets
UpdateData(card, t) == DictSet(card, "updated_at", Datetime(t))

\* lines 139-150: parse, update_one, 404 when nothing matched
update_flashcard(c, card_id, card, t) ==
    LET args == [NoArgs EXCEPT !.card_id = Str(card_id), !.card = Dict(card)]
        oid == ObjectId(card_id)
        update_data == UpdateData(card, t)
        result == UpdateResult(flashcard, [_id |-> oid], update_data)
    IN /\ Ready(c)
       /\ IF db = "None"
          THEN /\ last' = DbNotAvailable("update", args)
               /\ UNCHANGED <<flashcard, handler>>
          ELSE IF ~ObjectIdValid(card_id)
          THEN /\ last' = InvalidId("update", args)
               /\ UNCHANGED <<flashcard, handler>>
          ELSE /\ flashcard' = UpdateOne(flashcard, [_id |-> oid], update_data)
               /\ IF UpdateMissed(result)
                  THEN /\ last' = NotFound("update", args, Dict(result), <<"update_one">>)
                       /\ UNCHANGED handler
                  ELSE /\ handler' = [MarkDirty(c, oid) EXCEPT ![c] =
                              [pc |-> "find_one", op |-> "update", card_id |-> Str(card_id),
                               oid |-> oid, card |-> Dict(card), t |-> t,
                               result |-> Dict(result), dirty |-> FALSE]]
                       /\ UNCHANGED last
       /\ UNCHANGED <<db, next_oid, written, created_ok, deleted_ok>>

\* lines 151-152: find_one by the same id, then the response
update_flashcard_find(c) ==
    LET h == handler[c]
        args == [NoArgs EXCEPT !.card_id = h.card_id, !.card = h.card]
        doc == FindOne(flashcard, [_id |-> h.oid])
        resp == ReturnFlashcardOut("update", args, doc, h.result,
                                   <<"update_one", "find_one">>)
    IN /\ last = NoRequest
       /\ h.pc = "find_one"
       /\ h.op = "update"
       /\ last' = resp
       /\ handler' = [handler EXCEPT ![c] = Idle]
       /\ IF resp.status = 200
          THEN written' = DictSet(written, h.oid, args.card)
          ELSE UNCHANGED written
       /\ UNCHANGED <<db, flashcard, next_oid, created_ok, deleted_ok>>

(***************************************************************************)
(* DELETE /api/flashcards/{card_id} (src/main.py:155-167)                  *)
(***************************************************************************)
\* faulty variant of DeleteMissed: the result is not tested
DeleteMissedNever(result) == FALSE

\* line 165: the 404 test on the DeleteResult
DeleteMissed(result) == result.deleted_count = 0

delete_flashcard(c, card_id) ==
    LET args == [NoArgs EXCEPT !.card_id = Str(card_id)]
        oid == ObjectId(card_id)
        result == DeleteResult(flashcard, [_id |-> oid])
    IN /\ Ready(c)
       /\ IF db = "None"
          THEN /\ last' = DbNotAvailable("delete", args)
               /\ UNCHANGED <<flashcard, handler, deleted_ok, written>>
          ELSE IF ~ObjectIdValid(card_id)
          THEN /\ last' = InvalidId("delete", args)
               /\ UNCHANGED <<flashcard, handler, deleted_ok, written>>
          ELSE /\ flashcard' = DeleteOne(flashcard, [_id |-> oid])
               /\ IF DeleteMissed(result)
                  THEN /\ last' = NotFound("delete", args, Dict(result), <<"delete_one">>)
                       /\ UNCHANGED <<handler, deleted_ok, written>>
                  ELSE /\ last' = Response("delete", args, 200, "",
                                      Dict([success |-> TRUE]), Dict(result),
                                      <<"delete_one">>, NoneV)
                       /\ handler' = MarkDirty(c, oid)
                       /\ deleted_ok' = deleted_ok + 1
                       /\ written' = DictSet(written, oid, Deleted)
       /\ UNCHANGED <<db, next_oid, created_ok>>

(***************************************************************************)
(* Requests the clients send.                                              *)
(***************************************************************************)
\* a 24-character string with a character that is no hex digit
NotHex == [i \in 1..(2 * OidBytes) |-> IF i = 1 THEN "z" ELSE "0"]
\* the upper-case spelling of a generated id
Upper(s) == [i \in 1..Len(s) |-> UpperHex[HexVal(s[i]) + 1]]

CardIds ==
    {OidStr(GenOid(n)) : n \in 1..MaxCreates}
        \cup {Upper(OidStr(GenOid(1))), NotHex, <<"a", "b", "c">>}

Decks == {NoneV, Str(""), Str("math")}
Tags == {NoneV, Str(""), Str("algebra"), Str("geometry")}
Limits == {NoneV, IntV(0), IntV(1)}

\* the framework sends the response of the completed request
send_response ==
    /\ last # NoRequest
    /\ last' = NoRequest
    /\ UNCHANGED <<db, flashcard, next_oid, handler, written, created_ok, deleted_ok>>

\* no handler is between its write and its read
Sequential == \A x \in Clients : handler[x].pc = "idle"

\* requests of different clients interleave between their database operations
Next ==
    \/ send_response
    \/ \E c \in Clients :
        \/ \E deck \in Decks, tag \in Tags, limit \in Limits :
                list_flashcards(c, deck, tag, limit)
        \/ \E card \in Cards, t \in Times :
                next_oid < MaxRaceCreates /\ create_flashcard(c, card, t)
        \/ create_flashcard_find(c)
        \/ \E card_id \in CardIds : get_flashcard(c, card_id)
        \/ \E card_id \in CardIds, card \in Cards, t \in Times :
                update_flashcard(c, card_id, card, t)
        \/ update_flashcard_find(c)
        \/ \E card_id \in CardIds : delete_flashcard(c, card_id)

Spec == Init /\ [][Next]_vars

\* requests run one at a time: a request starts when no other is running
SeqNext ==
    \/ send_response
    \/ \E c \in Clients :
        \/ \E deck \in Decks, tag \in Tags, limit \in Limits :
                Sequential /\ list_flashcards(c, deck, tag, limit)
        \/ \E card \in Cards, t \in Times :
                Sequential /\ create_flashcard(c, card, t)
        \/ create_flashcard_find(c)
        \/ \E card_id \in CardIds : Sequential /\ get_flashcard(c, card_id)
        \/ \E card_id \in CardIds, card \in Cards, t \in Times :
                Sequential /\ update_flashcard(c, card_id, card, t)
        \/ update_flashcard_find(c)
        \/ \E card_id \in CardIds : Sequential /\ delete_flashcard(c, card_id)

SeqSpec == Init /\ [][SeqNext]_vars

(***************************************************************************)
(* Properties.                                                             *)
(***************************************************************************)
\* this step completes a request
Completes == last = NoRequest /\ last' # NoRequest
\* this step completes a request with the first database operation it issues
CompletesAtOnce == Completes /\ \A c \in Clients : handler'[c].pc = handler[c].pc
\* this step is client c's update_one that matched
UpdateWrites(c) ==
    handler[c].pc = "idle" /\ handler'[c].pc = "find_one" /\ handler'[c].op = "update"
\* this step is client c's read-back and response
ReadsBack(c) == handler[c].pc = "find_one" /\ handler'[c].pc = "idle"

HasId(coll, oid) == \E d \in coll : d["_id"] = oid
Ids(coll) == {d["_id"] : d \in coll}
DocOf(coll, oid) == CHOOSE d \in coll : d["_id"] = oid
ById == {"get", "update", "delete"}

\* C1: with the database available, get, update and delete of a card_id that
\* is no ObjectId end with 400 "Invalid ID", issue no database operation and
\* leave the collection unchanged.
C1_InvalidIdIs400 ==
    [][(Completes /\ db = "client" /\ last'.op \in ById
            /\ ~ObjectIdValid(last'.args.card_id[2]))
        => /\ last'.status = 400
           /\ last'.detail = "Invalid ID"
           /\ last'.ops = <<>>
           /\ flashcard' = flashcard
           /\ handler' = handler]_vars

C1_Witness ==
    /\ flashcard # {}
    /\ last.op = "delete"
    /\ last.args.card_id = Str(NotHex)
    /\ last.status = 400

\* C2: with the database available and a card_id that parses, get, update and
\* delete end with 404 "Flashcard not found" when no document has that id at
\* the moment of find_one, update_one or delete_one, and the collection is
\* unchanged; an update goes on to its read-back only if a document matched.
C2_MissingIs404 ==
    [][/\ (CompletesAtOnce /\ db = "client" /\ last'.op \in ById
                /\ ObjectIdValid(last'.args.card_id[2])
                /\ ~HasId(flashcard, ObjectId(last'.args.card_id[2])))
            => /\ last'.status = 404
               /\ last'.detail = "Flashcard not found"
               /\ Len(last'.ops) = 1
               /\ flashcard' = flashcard
       /\ \A c \in Clients :
            UpdateWrites(c) => HasId(flashcard, handler'[c].oid)]_vars

C2_Witness ==
    /\ flashcard # {}
    /\ last.op = "update"
    /\ last.status = 404
    /\ last.ops = <<"update_one">>

\* C3: with a parsable id and the database available, update ends in 404
\* exactly when matched_count is 0 (an update that matches and modifies nothing
\* is no 404), and delete ends in 404 exactly when deleted_count is 0 and
\* otherwise returns {"success": true}.
C3_StatusMirrorsResult ==
    (last.op \in {"update", "delete"} /\ db = "client"
        /\ ObjectIdValid(last.args.card_id[2]))
    => /\ isinstance(last.result, "dict")
       /\ last.op = "update" =>
            /\ last.status = 404 <=> last.result[2].matched_count = 0
            /\ last.result[2].matched_count # 0 =>
                    last.status = 200 \/ last.detail = "Internal Server Error"
       /\ last.op = "delete" =>
            /\ last.status = 404 <=> last.result[2].deleted_count = 0
            /\ last.result[2].deleted_count # 0 =>
                    last.status = 200 /\ last.body = Dict([success |-> TRUE])

C3_Witness ==
    /\ last.op = "update"
    /\ last.status = 200
    /\ last.result[2].matched_count = 1
    /\ last.result[2].modified_count = 0

\* C4: with db None every flashcard route answers 500 "Database not available"
\* before anything else: no id is parsed, no database operation is issued.
C4_NoDatabaseIs500 ==
    db = "None" =>
        /\ flashcard = {}
        /\ next_oid = 0
        /\ Sequential
        /\ last # NoRequest =>
            /\ last.status = 500
            /\ last.detail = "Database not available"
            /\ last.ops = <<>>

C4_Witness ==
    /\ db = "None"
    /\ last.op = "update"
    /\ last.args.card_id = Str(NotHex)
    /\ last.status = 500

\* C5: list returns a document only if its deck equals a given non-empty deck
\* and its tags contain a given non-empty tag; an absent or empty deck or tag
\* adds no constraint (without a limit, every such document is returned); a
\* positive limit bounds the size of the result; the collection is unchanged.
C5_ListFilter ==
    [][(Completes /\ db = "client" /\ last'.op = "list")
        => LET a == last'.args
               Wanted(d) ==
                    /\ Truthy(a.deck) => d["deck"] = a.deck
                    /\ Truthy(a.tag) =>
                            /\ isinstance(d["tags"], "list")
                            /\ \E i \in 1..Len(d["tags"][2]) : d["tags"][2][i] = a.tag
               Returned(d) ==
                    \E out \in last'.body[2] : out[2]["id"] = Str(OidStr(d["_id"]))
           IN /\ last'.status = 200
              /\ \A out \in last'.body[2] :
                    \E d \in flashcard :
                        Wanted(d) /\ out[2]["id"] = Str(OidStr(d["_id"]))
              /\ ~Truthy(a.limit) => \A d \in flashcard : Wanted(d) => Returned(d)
              /\ (isinstance(a.limit, "int") /\ a.limit[2] > 0) =>
                    Cardinality(last'.body[2]) <= a.limit[2]
              /\ flashcard' = flashcard]_vars

C5_Witness ==
    /\ Cardinality(flashcard) = 2
    /\ \E d \in flashcard : d["deck"] = Str("math")
    /\ last.op = "list"
    /\ last.args.deck = Str("math")
    /\ last.args.tag = Str("geometry")
    /\ last.status = 200
    /\ last.body[2] = {}

\* the response document out is the serialization of the stored document d
SerializedFrom(out, d) ==
    /\ "_id" \notin DOMAIN out[2]
    /\ isinstance(out[2]["id"], "str")
    /\ ObjectIdValid(out[2]["id"][2])
    /\ ObjectId(out[2]["id"][2]) = d["_id"]
    /\ out[2]["id"] = Str(OidStr(d["_id"]))
    /\ \A k \in DOMAIN d \ {"_id"} :
            /\ k \in DOMAIN out[2]
            /\ IF isinstance(d[k], "datetime")
               THEN out[2][k] = Str(IsoFormat(d[k]))
               ELSE out[2][k] = d[k]

C7_Lifecycle ==
    [][(Completes /\ db = "client")
        => /\ (last'.op \in ById /\ ObjectIdValid(last'.args.card_id[2])
                    /\ ObjectId(last'.args.card_id[2]) \in DOMAIN written)
                => LET w == written[ObjectId(last'.args.card_id[2])]
                   IN /\ w = Deleted => last'.status = 404
                      /\ (w # Deleted /\ last'.op = "get") =>
                            /\ last'.status = 200
                            /\ \A k \in FlashcardFields : last'.body[2][k] = w[2][k]
           /\ (last'.op = "list" /\ last'.status = 200)
                => \A out \in last'.body[2] :
                     \A X \in DOMAIN written :
                        written[X] = Deleted => out[2]["id"] # Str(OidStr(X))
           /\ (last'.op = "create" /\ last'.status = 200)
                => ObjectId(last'.body[2]["id"][2]) \notin DOMAIN written]_vars

C7_Witness ==
    /\ last.op = "delete"
    /\ last.status = 404
    /\ ObjectIdValid(last.args.card_id[2])
    /\ ObjectId(last.args.card_id[2]) \in DOMAIN written
    /\ written[ObjectId(last.args.card_id[2])] = Deleted
    /\ flashcard # {}

\* C8 as stated: a create or update that got past its write always responds
\* 200 with the fields this request wrote, under any interleaving.
C8_AlwaysOwnCard ==
    (last.op \in {"create", "update"} /\ Len(last.ops) = 2)
    => /\ last.status = 200
       /\ \A k \in FlashcardFields : last.body[2][k] = last.args.card[2][k]

\* C8 amended: the response of create and update is what find_one reads at the
\* time of the read-back: the document stored under the id then, or the
\* framework's 500 if there is none; it carries the fields this request wrote
\* when no other request wrote or deleted that document since.
C8_ReadBack ==
    [][\A c \in Clients :
        ReadsBack(c)
        => LET h == handler[c]
           IN /\ last'.op = h.op
              /\ last'.args.card = h.card
              /\ IF HasId(flashcard, h.oid)
                 THEN /\ last'.status = 200
                      /\ SerializedFrom(last'.body, DocOf(flashcard, h.oid))
                 ELSE /\ last'.status = 500
                      /\ last'.detail = "Internal Server Error"
              /\ ~h.dirty =>
                    /\ last'.status = 200
                    /\ \A k \in FlashcardFields : last'.body[2][k] = h.card[2][k]
                    /\ last'.body[2]["updated_at"] = Str(IsoFormat(Datetime(h.t)))
              /\ flashcard' = flashcard]_vars

C8_Witness ==
    /\ last.op = "update"
    /\ last.status = 200
    /\ \E k \in FlashcardFields : last.body[2][k] # last.args.card[2][k]

====
